---- MODULE Spec2Model ----
(***************************************************************************)
(* A model of mesacat's EvacuationModel (src/mesacat/model.py): the        *)
(* construction of the model from a hazard layer and a layer of agent      *)
(* locations, step(), run() and create_movie().                            *)
(*                                                                         *)
(* Geometry is one-dimensional: a point is an integer coordinate, a hazard *)
(* polygon is the set of coordinates it covers, and a point intersects a   *)
(* polygon when it is one of them.  The road network is a line of three    *)
(* nodes with OSM-like identifiers.                                        *)
(*                                                                         *)
(* `inp` holds the arguments of the constructor; `mdl` holds one record    *)
(* per model object built from them (one object, or two objects built     *)
(* from the same arguments and driven by the same calls).                  *)
(***************************************************************************)
EXTENDS Integers, Sequences, FiniteSets, TLC

VARIABLES inp, mdl

vars == <<inp, mdl>>

\* The largest value schedule.steps may reach in a behaviour.
MaxSteps == 2

(***************************************************************************)
(* The network: self.nodes.index (node identifiers in GeoDataFrame order)  *)
(* and the x coordinate of each node, and the edges of G.                  *)
(***************************************************************************)
NodeIds == <<101, 102, 103>>

NodeX == <<0, 2, 5>>

Nodes == {NodeIds[i] : i \in 1..Len(NodeIds)}

Neighbours(n) ==
  IF n = 101 THEN {102} ELSE IF n = 102 THEN {101, 103} ELSE {102}

(***************************************************************************)
(* Constructor arguments.  An Optional[int] is a set with at most one      *)
(* element: {} is None.                                                    *)
(***************************************************************************)
PolyA == {0, 1}

PolyB == {1, 2, 3}

HazardInputs == {<<>>, <<PolyA>>, <<PolyB>>, <<PolyA, PolyB>>}

AgentLocationInputs ==
  {<<>>, <<1>>, <<3>>, <<4>>, <<3, 3>>, <<4, 1>>, <<1, 3>>}

\* The reference frame of a layer: the network's, another one that can be
\* reprojected to it, or none (naive geometries, which cannot be).
NetworkCrs == "epsg:4326"

CrsInputs == {"epsg:4326", "epsg:27700", "none"}

TargetInputs == {{}, {103}, {999}}

SeedInputs == {{}, {1}, {2}}

\* The agent collaborator (mesacat.agent): "route" follows the shortest
\* path to the target, "free" may stay, move to any neighbour, or fail.
PolicyInputs == {"route", "free"}

Abs(x) == IF x < 0 THEN -x ELSE x

Max(a, b) == IF a > b THEN a ELSE b

(***************************************************************************)
(* geopandas.sjoin(agent_locations, hazard): an inner join on              *)
(* "intersects", one row for every (location, polygon) pair that           *)
(* intersects, in the order of the locations.                              *)
(***************************************************************************)
RECURSIVE MatchRows(_, _, _, _)
MatchRows(pt, i, hz, j) ==
  IF j > Len(hz) THEN <<>>
  ELSE (IF pt \in hz[j] THEN <<[left |-> i, right |-> j, x |-> pt]>> ELSE <<>>)
       \o MatchRows(pt, i, hz, j + 1)

RECURSIVE JoinFrom(_, _, _)
JoinFrom(locs, hz, i) ==
  IF i > Len(locs) THEN <<>>
  ELSE MatchRows(locs[i], i, hz, 1) \o JoinFrom(locs, hz, i + 1)

sjoin(locs, hz) == JoinFrom(locs, hz, 1)

\* nodes_tree.query(point): the position (from 0) in self.nodes of the
\* node closest to the point, the lowest position on a tie.
nodes_tree_query(x) ==
  (CHOOSE i \in 1..Len(NodeX) :
     \A j \in 1..Len(NodeX) :
        \/ Abs(NodeX[i] - x) < Abs(NodeX[j] - x)
        \/ (Abs(NodeX[i] - x) = Abs(NodeX[j] - x) /\ i <= j)) - 1

\* self.nodes.index[idx]
NodeOfIndex(idx) == NodeIds[idx + 1]

(***************************************************************************)
(* self.random: a generator seeded from `seed`.  The n-th draw below       *)
(* `bound` is a fixed function of the seed and n when a seed was given;    *)
(* without a seed the generator is seeded from the clock and the draw may  *)
(* be any value below the bound.                                           *)
(***************************************************************************)
Mix(s, n) == s * s * 5 + n * 3 + s * n * 7 + (n * n) \div 2

UnseededRandBelow(seed, n, bound) == 0..(bound - 1)

RandBelow(seed, n, bound) ==
  IF seed = {} THEN 0..(bound - 1)
  ELSE {Mix(CHOOSE s \in seed : TRUE, n) % bound}

SwapOneWay(x, i, j) == [x EXCEPT ![i] = x[j]]

Swap(x, i, j) == [x EXCEPT ![i] = x[j], ![j] = x[i]]

\* random.shuffle(x): for i from len(x)-1 down to 1, swap x[i] with x[j],
\* j drawn below i+1 (positions from 0).  The set of possible results,
\* the first draw being draw number n.
RECURSIVE ShuffleFrom(_, _, _, _)
ShuffleFrom(x, i, seed, n) ==
  IF i < 1 THEN {x}
  ELSE UNION {ShuffleFrom(Swap(x, i + 1, j + 1), i - 1, seed, n + 1) :
                j \in RandBelow(seed, n, i + 1)}

no_shuffle(x, seed, n) == {x}

shuffle(x, seed, n) == ShuffleFrom(x, Len(x) - 1, seed, n)

\* random.choice(seq): the possible elements, at draw number n.
choice(seq, seed, n) == {seq[j + 1] : j \in RandBelow(seed, n, Len(seq))}


(***************************************************************************)
(* One model object.  pc is where the object's caller stands:              *)
(*   "new"     the constructor has not run;                                *)
(*   "noobj"   the constructor raised: there is no object;                 *)
(*   "idle"    no call is in progress, or run() is between two steps;      *)
(*   "step"    inside schedule.step(), before the activation of           *)
(*             order[idx];                                                 *)
(*   "raised"  step() or run() raised, and the exception left the call.    *)
(* acts, trail, calls, runArg, runBase, built, ev, log (the calls made by  *)
(* the constructor, in order), movie (the frames of the last               *)
(* create_movie()), prior and pending are history: they record what        *)
(* happened and decide nothing.                                            *)
(***************************************************************************)
EmptyGrid == [n \in Nodes |-> <<>>]

New ==
  [pc |-> "new", ev |-> "none",
   target_node |-> 0, agents |-> <<>>, pos |-> <<>>, grid |-> EmptyGrid,
   steps |-> 0, order |-> <<>>, idx |-> 0,
   model_vars |-> <<>>, agent_records |-> <<>>,
   run |-> -1, ret |-> <<>>, draws |-> 0,
   calls |-> 0, runArg |-> -1, runBase |-> 0,
   acts |-> <<>>, trail |-> <<>>, built |-> <<>>,
   log |-> <<>>, movie |-> <<>>, prior |-> <<>>, pending |-> -1]

\* What a caller can observe of the simulation state.
Core(m) ==
  [target_node |-> m.target_node, agents |-> m.agents, pos |-> m.pos,
   grid |-> m.grid, steps |-> m.steps, model_vars |-> m.model_vars,
   agent_records |-> m.agent_records]

\* The pos of an agent that was never placed (no node has this identifier).
NoPos == 0

\* G.nodes[node]: a KeyError unless node is a node of G.
is_node(node) == node \in Nodes

place_agent_without_pos(m, a, node) ==
  [m EXCEPT !.grid = [n \in Nodes |->
                        IF n = node THEN Append(m.grid[n], a) ELSE m.grid[n]]]

\* NetworkGrid.place_agent(a, node): the agent joins the node's occupants
\* and its pos is set.
place_agent(m, a, node) ==
  [m EXCEPT !.grid = [n \in Nodes |->
                        IF n = node THEN Append(m.grid[n], a) ELSE m.grid[n]],
            !.pos = [@ EXCEPT ![a] = node]]

Without(seq, a) == SelectSeq(seq, LAMBDA b : b # a)

\* NetworkGrid.move_agent(a, node): leave the occupants of pos, join those
\* of node.
move_agent(m, a, node) ==
  LET left == [n \in Nodes |->
                 IF n = m.pos[a] THEN Without(m.grid[n], a) ELSE m.grid[n]]
  IN  [m EXCEPT !.grid = [n \in Nodes |->
                            IF n = node THEN Append(left[n], a) ELSE left[n]],
                !.pos = [@ EXCEPT ![a] = node]]

\* EvacuationAgent.update_route(): a route from pos to the target exists
\* only when the target is a node of G; otherwise the call raises.
update_route_ok(m, a) == m.target_node \in Nodes

\* The body of the "Create agents" loop for agent i at KD-tree index idx:
\* schedule.add(a), then grid.place_agent(a, self.nodes.index[idx]).
CreateAgent(m, i, idx) ==
  LET added == [m EXCEPT !.agents = Append(@, i),
                         !.pos = (i :> NoPos) @@ @,
                         !.acts = (i :> 0) @@ @,
                         !.log = Append(@, <<"add", i, NoPos>>)]
      placed == place_agent(added, i, NodeOfIndex(idx))
  IN  [placed EXCEPT !.trail = (i :> <<placed.pos[i]>>) @@ @,
                     !.log = Append(@, <<"place", i, NodeOfIndex(idx)>>)]

\* for i, idx in enumerate(node_idx): ... ; the loop stops at the first
\* place_agent() or update_route() that raises.
RECURSIVE CreateAgents(_, _, _)
CreateAgents(m, node_idx, i) ==
  IF i >= Len(node_idx) THEN m
  ELSE LET c == CreateAgent(m, i, node_idx[i + 1])
       IN  IF is_node(NodeOfIndex(node_idx[i + 1])) /\ update_route_ok(c, i)
           THEN CreateAgents([c EXCEPT !.log = Append(@, <<"route", i, NoPos>>)],
                             node_idx, i + 1)
           ELSE [c EXCEPT !.pc = "noobj"]

\* self.target_node = target_node if target_node is not None
\*                    else self.random.choice(self.nodes.index)
\* The possible (target, draws used) pairs.
AlwaysRandomTarget(target, seed) ==
  {<<t, 1>> : t \in choice(NodeIds, seed, 0)}

ChooseTarget(target, seed) ==
  IF target # {} THEN {<<t, 0>> : t \in target}
  ELSE {<<t, 1>> : t \in choice(NodeIds, seed, 0)}

\* self.hazard.crs = self.nodes.crs: the layer is relabelled with the
\* network's frame; its coordinates stay as they are.
AssignCrs(layer, crs) == layer

\* EvacuationModel.__init__: the objects it can produce from the arguments.
Constructed(m, in) ==
  LET hazard == AssignCrs(in.hazard, NetworkCrs)
      agent_locations == AssignCrs(in.agent_locations, NetworkCrs)
      agents_in_hazard_zone == sjoin(agent_locations, hazard)
      node_idx == [r \in 1..Len(agents_in_hazard_zone) |->
                     nodes_tree_query(agents_in_hazard_zone[r].x)]
  IN  {LET start == [m EXCEPT !.target_node = td[1], !.draws = td[2],
                              !.pc = "idle", !.ev = "init",
                              !.log = <<<<"target", td[1], NoPos>>>>]
           done == CreateAgents(start, node_idx, 0)
       IN  IF done.pc = "noobj" THEN [New EXCEPT !.pc = "noobj", !.ev = "init"]
           ELSE [done EXCEPT !.built = Core(done)]
       : td \in ChooseTarget(in.target_node, in.seed)}


(***************************************************************************)
(* step(): data_collector.collect(self), then schedule.step().             *)
(***************************************************************************)
\* A new call drops what the previous run() returned (history only).
Forget(m) ==
  [m EXCEPT !.ret = <<>>, !.runArg = -1, !.runBase = 0, !.movie = <<>>]

\* The model reporter reads G.nodes[target_node]['agent']: a KeyError when
\* the target is no node of G.
collect_ok(m) == m.target_node \in Nodes

AgentRows(m) ==
  [i \in 1..Len(m.agents) |->
     [Step |-> m.steps, AgentID |-> m.agents[i], position |-> m.pos[m.agents[i]]]]

not_evacuated(m) == Len(m.agents) - Len(m.grid[m.target_node])

evacuated_at_first_node(m) == Len(m.grid[NodeIds[1]])

\* The model reporter 'evacuated': the number of occupants of the target.
evacuated(m) == Len(m.grid[m.target_node])

collect_keeping_latest(m) ==
  [m EXCEPT !.model_vars = Append(@, evacuated(m)),
            !.agent_records = (m.steps :> AgentRows(m))]

\* DataCollector.collect: one model-level value appended, and the agents'
\* rows stored under the key schedule.steps.
collect(m) ==
  [m EXCEPT !.model_vars = Append(@, evacuated(m)),
            !.agent_records = (m.steps :> AgentRows(m)) @@ @]

\* step() up to the first activation: collect, then RandomActivation.step
\* shuffles the agent keys.
StepBegun(m, seed) ==
  LET c == IF m.run = -1 THEN Forget(m) ELSE m
  IN  IF ~collect_ok(c)
      THEN {[c EXCEPT !.pc = "raised", !.ev = "raise", !.calls = @ + 1]}
      ELSE {[collect(c) EXCEPT !.pc = "step", !.ev = "collect", !.calls = @ + 1,
                                !.order = o, !.idx = 1,
                                !.draws = @ + Max(Len(m.agents) - 1, 0)]
            : o \in shuffle(m.agents, seed, m.draws)}

\* The next node on the shortest path from p to the target t.
NextHop(p, t) ==
  IF p = t THEN p ELSE CHOOSE n \in Neighbours(p) : Abs(t - n) < Abs(t - p)

\* EvacuationAgent.step() of agent a: the nodes it may be on afterwards.
StepTargets(m, a, policy) ==
  IF policy = "route" THEN {NextHop(m.pos[a], m.target_node)}
  ELSE {m.pos[a]} \cup Neighbours(m.pos[a])

AfterMove(m, a, n) ==
  LET mv == IF n = m.pos[a] THEN m ELSE move_agent(m, a, n)
  IN  [mv EXCEPT !.idx = @ + 1, !.ev = "activate",
                 !.acts = [@ EXCEPT ![a] = @ + 1],
                 !.trail = [@ EXCEPT ![a] = Append(@, n)]]

ActivatedSkippingFailure(m, policy) ==
  LET a == m.order[m.idx]
  IN  {AfterMove(m, a, n) : n \in StepTargets(m, a, policy)}
      \cup (IF policy = "free"
            THEN {[m EXCEPT !.idx = @ + 1, !.ev = "activate"]}
            ELSE {})

\* The activation of order[idx]: it moves, or (policy "free") it raises and
\* the exception leaves schedule.step(), step() and run().
Activated(m, policy) ==
  LET a == m.order[m.idx]
  IN  {AfterMove(m, a, n) : n \in StepTargets(m, a, policy)}
      \cup (IF policy = "free"
            THEN {[m EXCEPT !.pc = "raised", !.ev = "raise"]}
            ELSE {})

StepFinishedRemovingArrived(m) ==
  [m EXCEPT !.steps = @ + 1, !.pc = "idle", !.ev = "step",
            !.order = <<>>, !.idx = 0,
            !.run = IF @ > 0 THEN @ - 1 ELSE @,
            !.agents = SelectSeq(@, LAMBDA a : m.pos[a] # m.target_node)]

StepFinishedCollecting(m) ==
  [collect(m) EXCEPT !.steps = @ + 1, !.pc = "idle", !.ev = "step",
                     !.order = <<>>, !.idx = 0,
                     !.run = IF @ > 0 THEN @ - 1 ELSE @]

\* The end of schedule.step(): steps += 1; step() returns.
StepFinished(m) ==
  [m EXCEPT !.steps = @ + 1, !.pc = "idle", !.ev = "step",
            !.order = <<>>, !.idx = 0,
            !.run = IF @ > 0 THEN @ - 1 ELSE @]

(***************************************************************************)
(* run(steps): for _ in range(steps): self.step(); then the agent-level    *)
(* dataframe is returned.                                                  *)
(***************************************************************************)
RunCalledOnceMore(m, n) ==
  [m EXCEPT !.run = n + 1, !.runArg = n, !.runBase = m.calls, !.ev = "run",
            !.ret = <<>>, !.movie = <<>>]

RunCalled(m, n) ==
  [m EXCEPT !.run = n, !.runArg = n, !.runBase = m.calls, !.ev = "run",
            !.ret = <<>>, !.movie = <<>>]

\* DataCollector.get_agent_vars_dataframe(): the stored rows chained in
\* the order of the steps.
RECURSIVE ChainRecords(_, _)
ChainRecords(recs, s) ==
  IF s \notin DOMAIN recs THEN <<>> ELSE recs[s] \o ChainRecords(recs, s + 1)

LastStepDataframe(m) ==
  IF m.steps = 0 THEN <<>> ELSE ChainRecords(m.agent_records, m.steps - 1)

get_agent_vars_dataframe(m) == ChainRecords(m.agent_records, 0)

RunReturnedOwnRows(m) ==
  [m EXCEPT !.run = -1, !.ret = ChainRecords(m.agent_records, m.runBase),
            !.ev = "return"]

RunReturned(m) ==
  [m EXCEPT !.run = -1, !.ret = get_agent_vars_dataframe(m), !.ev = "return"]

(***************************************************************************)
(* create_movie(path, fps): one frame per value of range(schedule.steps),  *)
(* showing self.nodes.loc[df.loc[(step,), 'position']].                    *)
(***************************************************************************)
\* df.loc[(step,), 'position']: the positions of the rows of the step.
PositionsAt(df, step) ==
  LET rows == SelectSeq(df, LAMBDA r : r.Step = step)
  IN  [k \in 1..Len(rows) |-> rows[k].position]

\* df.loc[(step,), ...] is a KeyError when df has no row of the step.
has_step(df, step) == \E k \in 1..Len(df) : df[k].Step = step

FramesShifted(df, steps) == [k \in 1..steps |-> PositionsAt(df, k)]

\* The frames grabbed by the loop over range(schedule.steps).
Frames(df, steps) == [k \in 1..steps |-> PositionsAt(df, k - 1)]

MovieMadeShifted(m) ==
  LET df == get_agent_vars_dataframe(m)
      c == [m EXCEPT !.ret = <<>>, !.runArg = -1, !.runBase = 0]
  IN  [c EXCEPT !.ev = "movie", !.movie = FramesShifted(df, m.steps)]

MovieMade(m) ==
  LET df == get_agent_vars_dataframe(m)
      c == [m EXCEPT !.ret = <<>>, !.runArg = -1, !.runBase = 0]
  IN  IF \A step \in 0..(m.steps - 1) : has_step(df, step)
      THEN [c EXCEPT !.ev = "movie", !.movie = Frames(df, m.steps)]
      ELSE [c EXCEPT !.ev = "movie_raise", !.pc = "raised", !.movie = <<>>]

(***************************************************************************)
(* The state machine.  Every object of mdl takes the same call at the      *)
(* same time, each with an outcome of its own.                             *)
(***************************************************************************)
\* Every object takes the call: outs[i] are the outcomes of object i.
Lock(outs) ==
  IF Len(mdl) = 1
  THEN \E r \in outs[1] : mdl' = <<r>>
  ELSE \E r1 \in outs[1] : \E r2 \in outs[2] : mdl' = <<r1, r2>>

\* Layers in the network's frame.
SameFrameInputs ==
  [hazard : HazardInputs, agent_locations : AgentLocationInputs,
   target_node : TargetInputs, seed : SeedInputs, policy : PolicyInputs,
   hazard_crs : {NetworkCrs}, agent_locations_crs : {NetworkCrs}]

\* Layers of which one is in another frame.
MixedFrameInputs ==
  {in \in [hazard : {<<PolyA>>, <<PolyB>>}, agent_locations : {<<3>>, <<4, 1>>},
            target_node : {{103}}, seed : {{1}}, policy : {"route"},
            hazard_crs : CrsInputs, agent_locations_crs : CrsInputs] :
     in.hazard_crs # NetworkCrs \/ in.agent_locations_crs # NetworkCrs}

Inputs == SameFrameInputs \cup MixedFrameInputs

Init == inp \in Inputs /\ mdl = <<New>>

InitPair == inp \in Inputs /\ inp.policy = "route" /\ mdl = <<New, New>>

Construct ==
  /\ \A i \in DOMAIN mdl : mdl[i].pc = "new"
  /\ Lock([i \in DOMAIN mdl |-> Constructed(mdl[i], inp)])
  /\ UNCHANGED inp

\* A direct call of step().
Step ==
  /\ \A i \in DOMAIN mdl :
        mdl[i].pc = "idle" /\ mdl[i].run = -1 /\ mdl[i].steps < MaxSteps
  /\ Lock([i \in DOMAIN mdl |-> StepBegun(mdl[i], inp.seed)])
  /\ UNCHANGED inp

Activate ==
  /\ \A i \in DOMAIN mdl :
        mdl[i].pc = "step" /\ mdl[i].idx <= Len(mdl[i].order)
  /\ Lock([i \in DOMAIN mdl |-> Activated(mdl[i], inp.policy)])
  /\ UNCHANGED inp

FinishStep ==
  /\ \A i \in DOMAIN mdl :
        mdl[i].pc = "step" /\ mdl[i].idx > Len(mdl[i].order)
  /\ Lock([i \in DOMAIN mdl |-> {StepFinished(mdl[i])}])
  /\ UNCHANGED inp

Run ==
  /\ \A i \in DOMAIN mdl : mdl[i].pc = "idle" /\ mdl[i].run = -1
  /\ \E n \in 0..MaxSteps :
        /\ \A i \in DOMAIN mdl : mdl[i].steps + n <= MaxSteps
        /\ Lock([i \in DOMAIN mdl |-> {RunCalled(mdl[i], n)}])
  /\ UNCHANGED inp

\* The next iteration of run()'s loop.
RunStep ==
  /\ \A i \in DOMAIN mdl : mdl[i].pc = "idle" /\ mdl[i].run > 0
  /\ Lock([i \in DOMAIN mdl |-> StepBegun(mdl[i], inp.seed)])
  /\ UNCHANGED inp

RunReturn ==
  /\ \A i \in DOMAIN mdl :
        mdl[i].pc = "idle" /\ mdl[i].run = 0 /\ mdl[i].pending = -1
  /\ Lock([i \in DOMAIN mdl |-> {RunReturned(mdl[i])}])
  /\ UNCHANGED inp

CreateMovie ==
  /\ \A i \in DOMAIN mdl : mdl[i].pc = "idle" /\ mdl[i].run = -1
  /\ \E i \in DOMAIN mdl : mdl[i].ev # "movie"
  /\ Lock([i \in DOMAIN mdl |-> {MovieMade(mdl[i])}])
  /\ UNCHANGED inp

\* On fresh objects: run(a) and then run(b) on the first object, run(a + b)
\* on the second.
SplitRun ==
  /\ Len(mdl) = 2
  /\ \A i \in DOMAIN mdl : mdl[i].pc = "idle" /\ mdl[i].ev = "init"
  /\ \E a \in 0..MaxSteps : \E b \in 0..(MaxSteps - a) :
        Lock(<<{[RunCalled(mdl[1], a) EXCEPT !.pending = b]},
               {RunCalled(mdl[2], a + b)}>>)
  /\ UNCHANGED inp

\* The first object's run(a) returns and its run(b) is called.
SplitReturn ==
  /\ Len(mdl) = 2
  /\ \A i \in DOMAIN mdl : mdl[i].pc = "idle"
  /\ mdl[1].run = 0 /\ mdl[1].pending >= 0
  /\ LET r == RunReturned(mdl[1])
     IN  Lock(<<{[RunCalled(r, mdl[1].pending)
                    EXCEPT !.prior = r.ret, !.pending = -1]},
                {mdl[2]}>>)
  /\ UNCHANGED inp

Next ==
  \/ Construct
  \/ Step
  \/ Activate
  \/ FinishStep
  \/ Run
  \/ RunStep
  \/ RunReturn
  \/ CreateMovie

Spec == Init /\ [][Next]_vars

SpecPair == InitPair /\ [][Next]_vars

NextSplit ==
  \/ Construct
  \/ SplitRun
  \/ RunStep
  \/ Activate
  \/ FinishStep
  \/ SplitReturn
  \/ RunReturn

SpecSplit == InitPair /\ [][NextSplit]_vars


(***************************************************************************)
(* Properties.                                                             *)
(***************************************************************************)
\* A model object exists.
Built(m) == m.pc \in {"idle", "step", "raised"}

AgentIds(m) == {m.agents[k] : k \in 1..Len(m.agents)}

\* The agent locations that intersect at least one hazard polygon.
InHazard(in) ==
  {c \in 1..Len(in.agent_locations) :
     \E j \in 1..Len(in.hazard) : in.agent_locations[c] \in in.hazard[j]}

RowsOf(df, a) == {k \in 1..Len(df) : df[k].AgentID = a}

\* C1: after construction the number of agents is the number of agent
\* locations that intersect at least one hazard polygon, also when the
\* polygons overlap.
C1_AgentCountIsCandidatesInHazard ==
  \A i \in DOMAIN mdl :
     Built(mdl[i]) => Len(mdl[i].agents) = Cardinality(InHazard(inp))

\* C2: the rows stored for step index t hold, for every agent, its position
\* after exactly t activations, and one model-level value is stored per
\* step; right after the collection no agent has been activated in the step.
C2_SnapshotPrecedesActivation ==
  \A i \in DOMAIN mdl :
     LET m == mdl[i] IN
     Built(m) =>
       /\ Len(m.model_vars) = Cardinality(DOMAIN m.agent_records)
       /\ \A t \in DOMAIN m.agent_records :
            /\ Len(m.agent_records[t]) = Len(m.agents)
            /\ \A k \in 1..Len(m.agent_records[t]) :
                 LET row == m.agent_records[t][k] IN
                 /\ row.Step = t
                 /\ row.AgentID = m.agents[k]
                 /\ row.position = m.trail[row.AgentID][t + 1]
       /\ (m.ev = "collect" =>
             /\ m.steps \in DOMAIN m.agent_records
             /\ \A a \in AgentIds(m) : m.acts[a] = m.steps)

C2_Witness ==
  \E i \in DOMAIN mdl :
     LET m == mdl[i] IN
     /\ m.pc = "idle" /\ m.steps = 2 /\ Len(m.agents) = 3
     /\ \E k \in 1..3 :
          /\ m.agent_records[1][k].position # m.agent_records[0][k].position
          /\ m.pos[m.agents[k]] # m.agent_records[1][k].position

\* C3: a step() that returns has activated every agent exactly once, and
\* inside a step the agents before order[idx] have been activated once in
\* it and the others not yet; a step starts only when every agent has been
\* activated in all earlier steps.
C3_EachAgentOncePerStep ==
  \A i \in DOMAIN mdl :
     LET m == mdl[i] IN
     /\ (m.pc = "idle" => \A a \in AgentIds(m) : m.acts[a] = m.steps)
     /\ (m.pc = "step" =>
           /\ Len(m.order) = Len(m.agents)
           /\ {m.order[k] : k \in 1..Len(m.order)} = AgentIds(m)
           /\ \A k \in 1..Len(m.order) :
                m.acts[m.order[k]] = m.steps + (IF k < m.idx THEN 1 ELSE 0))
     /\ (m.pc = "raised" =>
           \A a \in AgentIds(m) : m.acts[a] \in {m.steps, m.steps + 1})

C3_Witness ==
  \E i \in DOMAIN mdl :
     LET m == mdl[i] IN
     /\ m.pc = "step" /\ m.steps = 1 /\ m.idx = 3
     /\ m.order = <<2, 0, 1>>

\* C4: run(n), n >= 1, on a freshly constructed model calls step() n times
\* and returns a series with, for every agent, the n step indices 0..n-1,
\* one row each, holding a node as position.
C4_RunGivesStepsIndicesPerAgent ==
  \A i \in DOMAIN mdl :
     LET m == mdl[i] IN
     (m.ev = "return" /\ m.runBase = 0 /\ m.runArg >= 1) =>
       /\ m.calls = m.runArg
       /\ m.steps = m.runArg
       /\ Len(m.ret) = m.runArg * Len(m.agents)
       /\ \A a \in AgentIds(m) :
            /\ {m.ret[k].Step : k \in RowsOf(m.ret, a)} = 0..(m.runArg - 1)
            /\ Cardinality(RowsOf(m.ret, a)) = m.runArg
            /\ \A k \in RowsOf(m.ret, a) : m.ret[k].position \in Nodes

C4_Witness ==
  \E i \in DOMAIN mdl :
     LET m == mdl[i] IN
     /\ m.ev = "return" /\ m.runBase = 0 /\ m.runArg = 2
     /\ Len(m.agents) = 2 /\ Len(m.ret) = 4

\* C5: run(0) on a freshly constructed model returns an empty series and
\* leaves the model as construction left it.
C5_RunZeroChangesNothing ==
  \A i \in DOMAIN mdl :
     LET m == mdl[i] IN
     (m.ev = "return" /\ m.runBase = 0 /\ m.runArg = 0) =>
       /\ m.pc = "idle"
       /\ m.ret = <<>>
       /\ Core(m) = m.built

C5_Witness ==
  \E i \in DOMAIN mdl :
     LET m == mdl[i] IN
     /\ m.ev = "return" /\ m.runBase = 0 /\ m.runArg = 0
     /\ Len(m.agents) = 3

\* C6: two models built from the same arguments with the same seed, driven
\* by the same calls, with the deterministic movement policy, draw the same
\* activation order in every step and collect and return the same series.
C6_SameSeedSameSeries ==
  (Len(mdl) = 2 /\ inp.seed # {} /\ inp.policy = "route") =>
     /\ mdl[1].order = mdl[2].order
     /\ mdl[1].agent_records = mdl[2].agent_records
     /\ mdl[1].ret = mdl[2].ret

C6_Witness ==
  /\ Len(mdl) = 2 /\ inp.seed # {} /\ inp.policy = "route"
  /\ mdl[1].pc = "step" /\ mdl[1].steps = 1 /\ mdl[1].idx = 2
  /\ Len(mdl[1].agents) = 3
  /\ mdl[1].order # mdl[1].agents
  /\ mdl[1].agent_records[0] # mdl[1].agent_records[1]

\* C7: with no target supplied and a seed supplied, two constructions from
\* the same arguments choose the same target; a supplied target is the
\* target, and construction then draws nothing from the generator.
C7_TargetChoiceDeterministic ==
  /\ \A i \in DOMAIN mdl :
        (Built(mdl[i]) /\ inp.target_node # {}) =>
           /\ mdl[i].target_node \in inp.target_node
           /\ (mdl[i].ev = "init" => mdl[i].draws = 0)
  /\ (Len(mdl) = 2 /\ Built(mdl[1]) /\ Built(mdl[2])
        /\ inp.target_node = {} /\ inp.seed # {}) =>
       mdl[1].target_node = mdl[2].target_node

C7_Witness ==
  /\ Len(mdl) = 2 /\ mdl[1].ev = "init" /\ mdl[2].ev = "init"
  /\ Built(mdl[1]) /\ Built(mdl[2])
  /\ inp.target_node = {} /\ inp.seed # {}
  /\ Len(mdl[1].agents) > 0
  /\ mdl[1].target_node \in Nodes

\* C8: a supplied target that is no node of the graph makes construction
\* fail, whatever the agent locations: no model object comes to exist.
C8_InvalidTargetFailsConstruction ==
  \A i \in DOMAIN mdl :
     (inp.target_node # {} /\ inp.target_node \cap Nodes = {}) =>
        ~Built(mdl[i])

\* C9: an empty hazard layer, or agent locations none of which is in the
\* hazard, makes construction fail: no model object with zero agents comes
\* to exist.
C9_NoAgentsFailsConstruction ==
  \A i \in DOMAIN mdl :
     (inp.hazard = <<>> \/ InHazard(inp) = {}) => ~Built(mdl[i])

\* C10: after construction, inside and after every step, every agent has a
\* position and the position is a node of the graph.
C10_PositionsAreNodes ==
  \A i \in DOMAIN mdl :
     LET m == mdl[i] IN
     Built(m) =>
       \A a \in AgentIds(m) : a \in DOMAIN m.pos /\ m.pos[a] \in Nodes

C10_Witness ==
  \E i \in DOMAIN mdl :
     LET m == mdl[i] IN
     /\ m.pc = "idle" /\ m.steps = 2 /\ Len(m.agents) = 3
     /\ \E a \in AgentIds(m) : m.pos[a] # m.built.pos[a]


\* C11: the registered agents and the target are those construction left,
\* whatever calls of step(), run() and create_movie() followed.
C11_AgentsAndTargetFixed ==
  \A i \in DOMAIN mdl :
     LET m == mdl[i] IN
     Built(m) =>
       /\ m.agents = m.built.agents
       /\ m.target_node = m.built.target_node

C11_Witness ==
  \E i \in DOMAIN mdl :
     LET m == mdl[i] IN
     /\ m.ev = "movie" /\ m.steps = 2 /\ Len(m.agents) = 3
     /\ \E a \in AgentIds(m) : m.pos[a] = m.target_node

RaisedInStep(m) == m.pc = "raised" /\ m.idx >= 1

\* C13: when an activation raises, the step is not counted as completed,
\* the failed agent and the agents after it in the order are not activated
\* in it, run() does not return, and nothing is executed afterwards; a step
\* that is counted as completed has activated every agent.
C13_FailureEndsTheRun ==
  [][\A i \in DOMAIN mdl :
       LET m == mdl[i]
           n == mdl'[i]
       IN  /\ m.pc = "raised" => n = m
           /\ RaisedInStep(n) =>
                /\ n.steps = m.steps
                /\ Len(n.model_vars) = n.steps + 1
                /\ n.run = m.run
                /\ n.ret = <<>>
                /\ \A k \in 1..Len(n.order) :
                     n.acts[n.order[k]] =
                       n.steps + (IF k < n.idx THEN 1 ELSE 0)
           /\ n.pc = "idle" => \A a \in AgentIds(n) : n.acts[a] = n.steps
    ]_vars

C13_Witness ==
  \E i \in DOMAIN mdl :
     LET m == mdl[i] IN
     /\ RaisedInStep(m) /\ m.idx = 2 /\ Len(m.agents) = 3
     /\ m.steps = 1 /\ m.run = 1 /\ m.runArg = 2

\* The agent locations that pass the hazard filter, each once, in order.
FilteredCandidates(in) ==
  SelectSeq(in.agent_locations,
            LAMBDA x : \E j \in 1..Len(in.hazard) : x \in in.hazard[j])

\* The agent locations as the rows of the join hold them.
JoinedCandidates(in) ==
  LET rows == sjoin(in.agent_locations, in.hazard)
  IN  [r \in 1..Len(rows) |-> rows[r].x]

\* The calls construction makes for the candidates F[i], F[i+1], ...
RECURSIVE CreationLog(_, _)
CreationLog(F, i) ==
  IF i > Len(F) THEN <<>>
  ELSE <<<<"add", i - 1, NoPos>>,
         <<"place", i - 1, NodeOfIndex(nodes_tree_query(F[i]))>>,
         <<"route", i - 1, NoPos>>>> \o CreationLog(F, i + 1)

\* C14: construction fixes the target and then, for the filtered candidates
\* in order, registers agent i, places it on the node nearest to the i-th
\* filtered candidate and computes its route, before the next agent; the
\* ids are 0..k-1.
C14_AgentsFollowFilteredCandidates ==
  \A i \in DOMAIN mdl :
     LET m == mdl[i]
         F == FilteredCandidates(inp)
     IN  Built(m) =>
           /\ m.agents = [k \in 1..Len(F) |-> k - 1]
           /\ m.log = <<<<"target", m.target_node, NoPos>>>> \o CreationLog(F, 1)

\* The order of C14 over the rows of the join (one row per intersecting
\* pair of location and polygon).
C14_AgentsFollowJoinRows ==
  \A i \in DOMAIN mdl :
     LET m == mdl[i]
         F == JoinedCandidates(inp)
     IN  Built(m) =>
           /\ m.agents = [k \in 1..Len(F) |-> k - 1]
           /\ m.log = <<<<"target", m.target_node, NoPos>>>> \o CreationLog(F, 1)

\* No activation so far moved an agent off the target.
NeverLeftTarget(m) ==
  \A a \in AgentIds(m) :
     \A j \in 1..(Len(m.trail[a]) - 1) :
        m.trail[a][j] = m.target_node => m.trail[a][j + 1] = m.target_node

\* C15: when no activation moves an agent off the target, the 'evacuated'
\* value stored for a step is at least the value stored for the step before.
C15_EvacuatedNeverDecreases ==
  \A i \in DOMAIN mdl :
     LET m == mdl[i] IN
     (Built(m) /\ NeverLeftTarget(m)) =>
        \A t \in 1..(Len(m.model_vars) - 1) :
           m.model_vars[t + 1] >= m.model_vars[t]

C15_Witness ==
  \E i \in DOMAIN mdl :
     LET m == mdl[i] IN
     /\ NeverLeftTarget(m) /\ Len(m.agents) = 3 /\ inp.policy = "free"
     /\ Len(m.model_vars) = 2
     /\ m.model_vars[1] = 1 /\ m.model_vars[2] = 2

\* The orders in which the agents of x can be activated.
Perms(x) ==
  {p \in [1..Len(x) -> {x[k] : k \in 1..Len(x)}] :
     \A j, k \in 1..Len(x) : j # k => p[j] # p[k]}

\* C16: with an unseeded generator, whenever a step can start, whatever the
\* orders of the earlier steps were, it can draw every permutation of the
\* agents as its activation order.
C16_EveryOrderEveryStep ==
  (Len(mdl) = 1 /\ inp.seed = {} /\ mdl[1].pc = "idle"
     /\ collect_ok(mdl[1])) =>
       \A q \in Perms(mdl[1].agents) :
          /\ (mdl[1].run = -1 /\ mdl[1].steps < MaxSteps) =>
                ENABLED (Step /\ mdl'[1].order = q)
          /\ mdl[1].run > 0 => ENABLED (RunStep /\ mdl'[1].order = q)

C16_Witness ==
  /\ Len(mdl) = 1 /\ inp.seed = {} /\ mdl[1].pc = "step"
  /\ mdl[1].steps = 1 /\ mdl[1].order = <<1, 2, 0>>
  /\ mdl[1].acts = [a \in 0..2 |-> 1]

\* C17: create_movie() grabs one frame per completed step, frame k showing
\* the positions stored for step index k, and leaves the simulation state
\* as it was.
C17_MovieOneFramePerStep ==
  [][\A i \in DOMAIN mdl :
       LET m == mdl[i]
           n == mdl'[i]
       IN  (n.ev \in {"movie", "movie_raise"} /\ n # m) =>
             /\ n.ev = "movie" /\ n.pc = "idle"
             /\ Len(n.movie) = m.steps
             /\ \A k \in 1..m.steps :
                  n.movie[k] = [j \in 1..Len(m.agents) |->
                                  m.agent_records[k - 1][j].position]
             /\ Core(n) = Core(m)
    ]_vars

\* C17 for models that hold at least one agent.
C17_MovieOneFramePerStepWithAgents ==
  [][\A i \in DOMAIN mdl :
       LET m == mdl[i]
           n == mdl'[i]
       IN  (n.ev \in {"movie", "movie_raise"} /\ n # m /\ Len(m.agents) > 0) =>
             /\ n.ev = "movie" /\ n.pc = "idle"
             /\ Len(n.movie) = m.steps
             /\ \A k \in 1..m.steps :
                  n.movie[k] = [j \in 1..Len(m.agents) |->
                                  m.agent_records[k - 1][j].position]
             /\ Core(n) = Core(m)
    ]_vars

\* A layer in the frame crs can be brought to the network's frame.
Normalisable(crs) == crs # "none"

\* A coordinate of the frame crs in the network's frame.
Reproject(x, crs) == IF crs = NetworkCrs THEN x ELSE x - 2

\* The nodes agents are placed on when both layers are reprojected first.
ReprojectedPlacements(in) ==
  LET locs == [k \in 1..Len(in.agent_locations) |->
                 Reproject(in.agent_locations[k], in.agent_locations_crs)]
      hz == [j \in 1..Len(in.hazard) |->
               {Reproject(x, in.hazard_crs) : x \in in.hazard[j]}]
      rows == sjoin(locs, hz)
  IN  [r \in 1..Len(rows) |-> NodeOfIndex(nodes_tree_query(rows[r].x))]

Placements(m) ==
  LET places == SelectSeq(m.log, LAMBDA e : e[1] = "place")
  IN  [r \in 1..Len(places) |-> places[r][3]]

\* C18: a model is built only from layers that can be brought to the
\* network's frame, and its agents are those the containment test yields
\* on the reprojected layers.
C18_LayersInNetworkFrame ==
  \A i \in DOMAIN mdl :
     Built(mdl[i]) =>
        /\ Normalisable(inp.hazard_crs)
        /\ Normalisable(inp.agent_locations_crs)
        /\ Placements(mdl[i]) = ReprojectedPlacements(inp)

\* C19: with a seed, run(a) followed by run(b) returns what run(a + b)
\* returns on a second model built from the same arguments: the rows of
\* the steps 0..a+b-1, the rows run(a) returned coming first.
C19_RunsAccumulate ==
  (Len(mdl) = 2 /\ inp.seed # {} /\ inp.policy = "route"
     /\ mdl[1].ev = "return" /\ mdl[2].ev = "return"
     /\ mdl[1].runBase + mdl[1].runArg = mdl[2].runArg) =>
       /\ mdl[1].ret = mdl[2].ret
       /\ Len(mdl[1].ret) = mdl[2].runArg * Len(mdl[1].agents)
       /\ \A k \in 1..Len(mdl[1].ret) :
            mdl[1].ret[k].Step \in 0..(mdl[2].runArg - 1)
       /\ \A a \in AgentIds(mdl[1]) :
            {mdl[1].ret[k].Step : k \in RowsOf(mdl[1].ret, a)}
              = 0..(mdl[2].runArg - 1)
       /\ Len(mdl[1].prior) = mdl[1].runBase * Len(mdl[1].agents)
       /\ SubSeq(mdl[1].ret, 1, Len(mdl[1].prior)) = mdl[1].prior

C19_Witness ==
  /\ Len(mdl) = 2 /\ inp.seed # {} /\ inp.policy = "route"
  /\ mdl[1].ev = "return" /\ mdl[2].ev = "return"
  /\ mdl[1].runBase = 1 /\ mdl[1].runArg = 1 /\ mdl[2].runArg = 2
  /\ Len(mdl[1].agents) = 3 /\ Len(mdl[1].prior) = 3
  /\ mdl[1].ret[4].position # mdl[1].ret[1].position

Occurrences(seq, a) == Cardinality({k \in 1..Len(seq) : seq[k] = a})

\* C20: the 'evacuated' value stored for a step is the number of agents
\* whose position stored for the step is the target, and every agent is an
\* occupant of the node that is its pos, once, and of no other node.
C20_EvacuatedCountsRecordedPositions ==
  \A i \in DOMAIN mdl :
     LET m == mdl[i] IN
     Built(m) =>
       /\ \A t \in DOMAIN m.agent_records :
            m.model_vars[t + 1] =
              Cardinality({k \in 1..Len(m.agent_records[t]) :
                             m.agent_records[t][k].position = m.target_node})
       /\ \A a \in AgentIds(m) : \A n \in Nodes :
            Occurrences(m.grid[n], a) = (IF m.pos[a] = n THEN 1 ELSE 0)

C20_Witness ==
  \E i \in DOMAIN mdl :
     LET m == mdl[i] IN
     /\ Len(m.agents) = 3 /\ Len(m.model_vars) = 2
     /\ m.model_vars[2] = 1 /\ m.model_vars[1] = 0
     /\ \E a \in AgentIds(m) : m.pos[a] # m.agent_records[1][a + 1].position

====
